---------------------------- MODULE Spec2Model ----------------------------
(***************************************************************************)
(* A model of the golf-jobs upgrade server: the price cache with its       *)
(* single-flight loader (getCachedPrices), the cached GET /prices and      *)
(* POST /create-checkout-session handlers, the boot warm-up and the        *)
(* refresh timer, GET /checkout, the uncached GET /prices and              *)
(* POST /checkout/credit.  The payment provider is the environment: every  *)
(* upstream call either succeeds or fails.                                 *)
(***************************************************************************)
EXTENDS Integers, Sequences, FiniteSets, TLC

\* null, for a field that otherwise holds an object.
NULL == [null |-> TRUE]
\* No promise: PRICE_CACHE.loading when null.
NoPromise == 0

\* ------------------------------------------------------------------ bounds
TicksPerTtl == 2
MaxTicks == 5
MaxLoads == 2
MaxRequests == 2

\* ------------------------------------------------------- program constants
PRICE_TTL_MS == 5 * 60 * 1000

\* The clock advances in steps of this many milliseconds.
TickMs == PRICE_TTL_MS \div TicksPerTtl
\* Date.now() at boot: more than one TTL after the epoch (PRICE_CACHE.ts
\* starts at 0).
BootMs == 2 * PRICE_TTL_MS
MaxNow == BootMs + MaxTicks * TickMs

\* ============================================================ price cache
VARIABLES
    now,          \* Date.now()
    PRODUCT_IDS,  \* the configured product ids, in order
    PRICE_CACHE,  \* [data, ts, loading]
    promises,     \* the promises made by the loader, by id: [state, value]
    booted,       \* the app.listen callback has run
    nextFire,     \* when the refresh timer fires next
    reqs,         \* the requests received, by id
    upSessions    \* the checkout sessions the provider holds

\* The configuration read from the environment, and the rest of what the
\* provider holds.
VARIABLES
    stripe,                      \* STRIPE_SECRET_KEY is set: the client exists
    BUNDLE_PRICE_ID,             \* "" when not set
    SINGLE_UPGRADE_PRODUCT_IDS,  \* the product ids that count as credit
    upCustomers,                 \* the provider's customers
    upCoupons,                   \* the provider's coupons
    upPromotionCodes             \* the provider's promotion codes

configVars == <<stripe, BUNDLE_PRICE_ID, SINGLE_UPGRADE_PRODUCT_IDS>>
providerVars == <<upCustomers, upCoupons, upPromotionCodes>>

cacheVars == <<now, PRODUCT_IDS, PRICE_CACHE, promises, booted, nextFire,
               reqs, upSessions>>

KnownProducts == {"prod_a", "prod_b"}
PriceVersions == {1, 2}

\* The price record the provider holds for product pid in version v.
PriceRecord(pid, v) ==
    [unit_amount |-> 1000 * v, currency |-> "gbp", price_id |-> <<"price", pid, v>>]

ProductIdConfigs == {<<"prod_a", "prod_b">>}

Range(s) == {s[i] : i \in DOMAIN s}

\* A map with an entry for the first configured id only.
FromEntriesFirst(ids, v) ==
    [pid \in {ids[i] : i \in DOMAIN ids \cap {1}} |-> PriceRecord(pid, v)]

\* Object.fromEntries(entries): the map of the configured ids, each with the
\* price record its lookup returned (the provider's prices in version v).
FromEntries(ids, v) ==
    [pid \in Range(ids) |-> PriceRecord(pid, v)]

\* fresh: the cache holds data younger than the TTL.
FreshStale ==
    PRICE_CACHE.data # NULL /\ (now - PRICE_CACHE.ts <= PRICE_TTL_MS)
Fresh ==
    PRICE_CACHE.data # NULL /\ (now - PRICE_CACHE.ts < PRICE_TTL_MS)

\* The call returns the promise of the load in flight.
JoinsNever == FALSE
Joins == ~Fresh /\ PRICE_CACHE.loading # NoPromise

\* The call starts a load.
StartsUnguarded == ~Fresh
Starts == ~Fresh /\ ~Joins

InFlight == {i \in DOMAIN promises : promises[i].state = "pending"}

\* What getCachedPrices returns to its caller.
GetCachedPricesResult ==
    IF Fresh THEN [src |-> "cache", value |-> PRICE_CACHE.data, promise |-> 0]
    ELSE IF Joins THEN [src |-> "load", value |-> NULL, promise |-> PRICE_CACHE.loading]
    ELSE [src |-> "load", value |-> NULL, promise |-> Len(promises) + 1]

\* getCachedPrices: what the call does to the cache.
GetCachedPrices ==
    /\ Starts => Len(promises) < MaxLoads
    /\ IF Starts
       THEN /\ promises' = Append(promises, [state |-> "pending", value |-> NULL])
            /\ PRICE_CACHE' = [PRICE_CACHE EXCEPT !.loading = Len(promises) + 1]
       ELSE UNCHANGED <<promises, PRICE_CACHE>>

\* The load's continuation after fetchAllPrices resolved with data.
CacheAfterLoadKeepsTs(data) == [data |-> data, ts |-> PRICE_CACHE.ts, loading |-> NoPromise]
CacheAfterLoad(data) == [data |-> data, ts |-> now, loading |-> NoPromise]

\* fetchAllPrices resolves: every product's lookup succeeded.
LoadSucceeds(i, v) ==
    /\ i \in InFlight
    /\ LET data == FromEntries(PRODUCT_IDS, v) IN
       /\ PRICE_CACHE' = CacheAfterLoad(data)
       /\ promises' = [promises EXCEPT ![i] = [state |-> "fulfilled", value |-> data]]
    /\ UNCHANGED <<now, PRODUCT_IDS, booted, nextFire, reqs, upSessions>>
    /\ UNCHANGED <<configVars, providerVars>>

\* A failing load that empties the cache.
LoadFailsClearsCache(i, pid) ==
    /\ i \in InFlight
    /\ pid \in Range(PRODUCT_IDS)
    /\ promises' = [promises EXCEPT ![i] =
                      [state |-> "rejected", value |-> [message |-> <<"lookup failed", pid>>]]]
    /\ PRICE_CACHE' = [data |-> NULL, ts |-> 0, loading |-> NoPromise]
    /\ UNCHANGED <<now, PRODUCT_IDS, booted, nextFire, reqs, upSessions>>
    /\ UNCHANGED <<configVars, providerVars>>

\* fetchAllPrices rejects: some product's lookup failed; Promise.all rejects
\* with that failure, and the load's continuation never runs.
LoadFails(i, pid) ==
    /\ i \in InFlight
    /\ pid \in Range(PRODUCT_IDS)
    /\ promises' = [promises EXCEPT ![i] =
                      [state |-> "rejected", value |-> [message |-> <<"lookup failed", pid>>]]]
    /\ UNCHANGED <<now, PRODUCT_IDS, PRICE_CACHE, booted, nextFire, reqs, upSessions>>
    /\ UNCHANGED <<configVars, providerVars>>

\* app.listen's callback: warm the cache and start the refresh timer.
Boot ==
    /\ ~booted
    /\ booted' = TRUE
    /\ GetCachedPrices
    /\ nextFire' = now + PRICE_TTL_MS
    /\ UNCHANGED <<now, PRODUCT_IDS, reqs, upSessions>>
    /\ UNCHANGED <<configVars, providerVars>>

\* The refresh timer fires.
TimerFires ==
    /\ booted
    /\ now >= nextFire
    /\ GetCachedPrices
    /\ nextFire' = nextFire + PRICE_TTL_MS
    /\ UNCHANGED <<now, PRODUCT_IDS, booted, reqs, upSessions>>
    /\ UNCHANGED <<configVars, providerVars>>

\* Time passes; a due timer fires before more time passes.
Tick ==
    /\ booted
    /\ now < nextFire
    /\ now + TickMs <= MaxNow
    /\ now' = now + TickMs
    /\ UNCHANGED <<PRODUCT_IDS, PRICE_CACHE, promises, booted, nextFire, reqs, upSessions>>
    /\ UNCHANGED <<configVars, providerVars>>

\* ------------------------------------------------------------- requests
\* The request bodies POST /create-checkout-session is tried with: products
\* absent or empty, one id, two ids in either order, a repeated id, an id
\* that is not configured, the name of a property that every object
\* inherits, and a products field that is not an array (without a length,
\* and with one, as a string has).
ProductLists ==
    {<<>>, <<"prod_a">>, <<"prod_a", "prod_b">>, <<"prod_b", "prod_a">>,
     <<"prod_a", "prod_a">>, <<"prod_a", "prod_x">>, <<"constructor">>}
Bodies ==
    [isArray : {TRUE}, products : ProductLists]
        \cup {[isArray |-> FALSE, products |-> <<>>],
              [isArray |-> FALSE, products |-> <<"prod_a">>]}

\* The messages of the provider's errors; the empty one is an error without
\* a message.
UpstreamMessages == {<<"No such price">>, <<>>}

NoResponse == [status |-> 0, body |-> NULL]
NoHandle == [src |-> "none", value |-> NULL, promise |-> 0]

\* The awaited getCachedPrices result has settled.
Settled(h) == IF h.src = "cache" THEN TRUE ELSE promises[h.promise].state # "pending"
Rejected(h) == IF h.src = "cache" THEN FALSE ELSE promises[h.promise].state = "rejected"
\* The value the await yields (the price map), or the error it throws.
Awaited(h) == IF h.src = "cache" THEN h.value ELSE promises[h.promise].value

\* GET /prices (cached): the request arrives and calls getCachedPrices.
PricesRequest ==
    /\ booted
    /\ Len(reqs) < MaxRequests
    /\ GetCachedPrices
    /\ reqs' = Append(reqs, [kind |-> "prices", pc |-> "await",
                             body |-> [isArray |-> TRUE, products |-> <<>>],
                             handle |-> GetCachedPricesResult,
                             line_items |-> <<>>, response |-> NoResponse])
    /\ UNCHANGED <<now, PRODUCT_IDS, booted, nextFire, upSessions>>
    /\ UNCHANGED <<configVars, providerVars>>

\* GET /prices (cached): the await returns or throws, and the handler answers.
PricesResponse(h) ==
    IF Rejected(h)
    THEN [status |-> 500, body |-> [error |-> <<"Failed to load prices">>]]
    ELSE [status |-> 200, body |-> Awaited(h)]

PricesResponds(r) ==
    /\ r \in DOMAIN reqs
    /\ reqs[r].kind = "prices" /\ reqs[r].pc = "await"
    /\ Settled(reqs[r].handle)
    /\ reqs' = [reqs EXCEPT ![r].pc = "done",
                            ![r].response = PricesResponse(reqs[r].handle)]
    /\ UNCHANGED <<now, PRODUCT_IDS, PRICE_CACHE, promises, booted, nextFire, upSessions>>
    /\ UNCHANGED <<configVars, providerVars>>

\* !Array.isArray(products) || products.length === 0
NoProductsSelectedLoose(body) == Len(body.products) = 0
NoProductsSelected(body) == ~body.isArray \/ Len(body.products) = 0

\* POST /create-checkout-session: the request arrives; it is refused, or it
\* calls getCachedPrices.
CreateCheckoutRequest(body) ==
    /\ booted
    /\ Len(reqs) < MaxRequests
    /\ IF NoProductsSelected(body)
       THEN /\ reqs' = Append(reqs, [kind |-> "checkout", pc |-> "done", body |-> body,
                                     handle |-> NoHandle, line_items |-> <<>>,
                                     response |-> [status |-> 400,
                                        body |-> [error |-> <<"No products selected">>]]])
            /\ UNCHANGED <<PRICE_CACHE, promises>>
       ELSE /\ GetCachedPrices
            /\ reqs' = Append(reqs, [kind |-> "checkout", pc |-> "await", body |-> body,
                                     handle |-> GetCachedPricesResult,
                                     line_items |-> <<>>, response |-> NoResponse])
    /\ UNCHANGED <<now, PRODUCT_IDS, booted, nextFire, upSessions>>
    /\ UNCHANGED <<configVars, providerVars>>

\* The property names a price map inherits from Object.prototype.
ObjectPrototypeKeys == {"constructor"}

\* undefined, for a price_id.
Undefined == <<>>

\* priceMap[pid]: the entry of the map, else the property the object
\* inherits under that name, else undefined.
Lookup(priceMap, pid) ==
    IF pid \in DOMAIN priceMap THEN priceMap[pid]
    ELSE IF pid \in ObjectPrototypeKeys THEN [inherited |-> pid]
    ELSE NULL

\* info.price_id
PriceIdOf(info) == IF "price_id" \in DOMAIN info THEN info.price_id ELSE Undefined

\* The positions of the ids for which !info holds.
UnknownAt(products, priceMap) ==
    {i \in DOMAIN products : Lookup(priceMap, products[i]) = NULL}

Min(S) == CHOOSE x \in S : \A y \in S : x <= y

\* products.map(pid => ({ price: priceMap[pid].price_id, quantity: 1 }))
LineItemsNoRepeat(products, priceMap) ==
    [i \in 1..Cardinality(Range(products)) |->
        [price |-> PriceIdOf(Lookup(priceMap, products[i])), quantity |-> 1]]
LineItems(products, priceMap) ==
    [i \in DOMAIN products |->
        [price |-> PriceIdOf(Lookup(priceMap, products[i])), quantity |-> 1]]

\* e.message || 'Checkout create failed'
MessageOr(msg) == IF msg = <<>> THEN <<"Checkout create failed">> ELSE msg

\* POST /create-checkout-session: the await returns or throws; the handler
\* builds the line items (or throws on the first unknown id) and calls
\* stripe.checkout.sessions.create.
CreateCheckoutContinues(r) ==
    /\ r \in DOMAIN reqs
    /\ reqs[r].kind = "checkout" /\ reqs[r].pc = "await"
    /\ Settled(reqs[r].handle)
    /\ LET h == reqs[r].handle
           products == reqs[r].body.products
       IN  IF Rejected(h)
           THEN reqs' = [reqs EXCEPT ![r].pc = "done",
                    ![r].response = [status |-> 500,
                        body |-> [error |-> MessageOr(Awaited(h).message)]]]
           ELSE IF UnknownAt(products, Awaited(h)) # {}
           THEN reqs' = [reqs EXCEPT ![r].pc = "done",
                    ![r].response = [status |-> 500,
                        body |-> [error |-> <<"Unknown product: ",
                            products[Min(UnknownAt(products, Awaited(h)))]>>]]]
           ELSE reqs' = [reqs EXCEPT ![r].pc = "creating",
                    ![r].line_items = LineItems(products, Awaited(h))]
    /\ UNCHANGED <<now, PRODUCT_IDS, PRICE_CACHE, promises, booted, nextFire, upSessions>>
    /\ UNCHANGED <<configVars, providerVars>>

\* The provider accepts a line item only with a price.
Priced(line_items) == \A k \in DOMAIN line_items : line_items[k].price # Undefined

\* stripe.checkout.sessions.create succeeds: the provider holds a new session
\* and the handler answers with its id.
SessionCreated(r) ==
    /\ r \in DOMAIN reqs
    /\ reqs[r].kind = "checkout" /\ reqs[r].pc = "creating"
    /\ Priced(reqs[r].line_items)
    /\ LET sid == Len(upSessions) + 1 IN
       /\ upSessions' = Append(upSessions,
              [id |-> sid, mode |-> "payment", line_items |-> reqs[r].line_items,
               request |-> r])
       /\ reqs' = [reqs EXCEPT ![r].pc = "done",
                    ![r].response = [status |-> 200, body |-> [id |-> sid]]]
    /\ UNCHANGED <<now, PRODUCT_IDS, PRICE_CACHE, promises, booted, nextFire>>
    /\ UNCHANGED <<configVars, providerVars>>

\* stripe.checkout.sessions.create fails: no session, and the catch answers 500.
SessionCreateFails(r, msg) ==
    /\ r \in DOMAIN reqs
    /\ reqs[r].kind = "checkout" /\ reqs[r].pc = "creating"
    /\ reqs' = [reqs EXCEPT ![r].pc = "done",
                 ![r].response = [status |-> 500, body |-> [error |-> MessageOr(msg)]]]
    /\ UNCHANGED <<now, PRODUCT_IDS, PRICE_CACHE, promises, booted, nextFire, upSessions>>
    /\ UNCHANGED <<configVars, providerVars>>

InitCache ==
    /\ now = BootMs
    /\ PRODUCT_IDS \in ProductIdConfigs
    /\ PRICE_CACHE = [data |-> NULL, ts |-> 0, loading |-> NoPromise]
    /\ promises = <<>>
    /\ booted = FALSE
    /\ nextFire = 0
    /\ reqs = <<>>
    /\ upSessions = <<>>
    /\ stripe = TRUE
    /\ BUNDLE_PRICE_ID = ""
    /\ SINGLE_UPGRADE_PRODUCT_IDS = <<>>
    /\ upCustomers = <<>>
    /\ upCoupons = <<>>
    /\ upPromotionCodes = <<>>

vars == <<cacheVars, configVars, providerVars>>

\* The steps of the price cache and of the handlers that use it, for requests
\* with the given bodies and provider errors with the given messages.
CacheNext(bodies, msgs) ==
    \/ Boot
    \/ \E i \in 1..MaxLoads, v \in PriceVersions : LoadSucceeds(i, v)
    \/ \E i \in 1..MaxLoads, pid \in KnownProducts : LoadFails(i, pid)
    \/ PricesRequest
    \/ \E r \in 1..MaxRequests : PricesResponds(r)
    \/ \E body \in bodies : CreateCheckoutRequest(body)
    \/ \E r \in 1..MaxRequests : CreateCheckoutContinues(r)
    \/ \E r \in 1..MaxRequests : SessionCreated(r)
    \/ \E r \in 1..MaxRequests, msg \in msgs : SessionCreateFails(r, msg)

\* The price cache over time: the clock, the refresh timer, and requests.
Next ==
    \/ TimerFires
    \/ Tick
    \/ CacheNext({[isArray |-> TRUE, products |-> <<"prod_a", "prod_b">>]},
                 {<<"No such price">>})

Spec == InitCache /\ [][Next]_vars

\* The checkout handler on every request body, with the cache it loads from.
NextSessions == CacheNext(Bodies, UpstreamMessages)

SpecSessions == InitCache /\ [][NextSessions]_vars

\* The price cache under every kind of configuration: no product id, one,
\* two, and a repeated one.
WarmProductIdConfigs ==
    {<<>>, <<"prod_a">>, <<"prod_a", "prod_b">>, <<"prod_a", "prod_a">>}

InitWarm ==
    /\ now = BootMs
    /\ PRODUCT_IDS \in WarmProductIdConfigs
    /\ PRICE_CACHE = [data |-> NULL, ts |-> 0, loading |-> NoPromise]
    /\ promises = <<>>
    /\ booted = FALSE
    /\ nextFire = 0
    /\ reqs = <<>>
    /\ upSessions = <<>>
    /\ stripe = TRUE
    /\ BUNDLE_PRICE_ID = ""
    /\ SINGLE_UPGRADE_PRODUCT_IDS = <<>>
    /\ upCustomers = <<>>
    /\ upCoupons = <<>>
    /\ upPromotionCodes = <<>>

\* The warm-up, the refresh timer, the loads and GET /prices.
NextWarm ==
    \/ Boot
    \/ TimerFires
    \/ Tick
    \/ \E i \in 1..MaxLoads, v \in PriceVersions : LoadSucceeds(i, v)
    \/ \E i \in 1..MaxLoads, pid \in KnownProducts : LoadFails(i, pid)
    \/ PricesRequest
    \/ \E r \in 1..MaxRequests : PricesResponds(r)

SpecWarm == InitWarm /\ [][NextWarm]_vars

\* =========================================================== GET /checkout
MaxPidLen == 3
MaxCheckoutRequests == 1

\* The characters a pid query parameter is made of.
PidChars == {",", "a", "b"}

RECURSIVE StringsUpTo(_)
StringsUpTo(n) ==
    IF n = 0 THEN {<<>>}
    ELSE StringsUpTo(n - 1)
            \cup {Append(t, c) : t \in {u \in StringsUpTo(n - 1) : Len(u) = n - 1},
                                 c \in PidChars}

\* req.query: pid is absent, a string, or (pid given more than once) an array.
Queries ==
    {[type |-> "absent", text |-> <<>>], [type |-> "array", text |-> <<>>]}
        \cup [type : {"string"}, text : StringsUpTo(MaxPidLen)]

\* The kinds of error a provider call fails with.
UpstreamErrorTypes == {"StripeInvalidRequestError", "StripeAPIError"}

\* pid.split(","): the segments between the commas, the empty ones too.
Split(text) ==
    LET F[i \in 0..Len(text)] ==
            IF i = 0 THEN << <<>> >>
            ELSE IF text[i] = "," THEN Append(F[i - 1], <<>>)
            ELSE [F[i - 1] EXCEPT ![Len(F[i - 1])] = Append(@, text[i])]
    IN  F[Len(text)]

NonEmpty(segment) == segment # <<>>

\* pid.split(",").filter(Boolean)
PriceIdsUnfiltered(text) == Split(text)
PriceIds(text) == SelectSeq(Split(text), NonEmpty)

\* priceIds.map(priceId => ({ price: priceId, quantity: 1 }))
CheckoutLineItems(priceIds) ==
    [i \in DOMAIN priceIds |-> [price |-> priceIds[i], quantity |-> 1]]

\* The URL of the provider's session sid.
SessionUrl(sid) == <<"https://checkout.stripe.com/pay", sid>>

\* What the catch block answers for an error of the given type.
CheckoutCatch(type) ==
    IF type = "StripeInvalidRequestError"
    THEN [status |-> 400, body |-> [error |-> <<"Invalid request to Stripe">>]]
    ELSE [status |-> 500, body |-> [error |-> <<"Failed to create checkout session">>]]

\* GET /checkout: the request arrives; it is answered at once, or the handler
\* calls stripe.checkout.sessions.create.
CheckoutAnswerAtOnce(q) ==
    IF ~stripe
    THEN [status |-> 500, body |-> [error |-> <<"Server missing STRIPE_SECRET_KEY">>]]
    ELSE IF q.type = "absent" \/ (q.type = "string" /\ q.text = <<>>)
    THEN [status |-> 400, body |-> [error |-> <<"Missing price ID parameter">>]]
    ELSE IF q.type = "array"
    THEN CheckoutCatch("TypeError")
    ELSE IF Len(PriceIds(q.text)) = 0
    THEN [status |-> 400, body |-> [error |-> <<"No valid price IDs provided">>]]
    ELSE NoResponse

CheckoutRequest(q) ==
    /\ Len(reqs) < MaxCheckoutRequests
    /\ IF CheckoutAnswerAtOnce(q) # NoResponse
       THEN reqs' = Append(reqs, [kind |-> "get-checkout", pc |-> "done", query |-> q,
                                  line_items |-> <<>>, calls |-> 0,
                                  response |-> CheckoutAnswerAtOnce(q)])
       ELSE reqs' = Append(reqs, [kind |-> "get-checkout", pc |-> "creating", query |-> q,
                                  line_items |-> CheckoutLineItems(PriceIds(q.text)),
                                  calls |-> 1, response |-> NoResponse])
    /\ UNCHANGED <<now, PRODUCT_IDS, PRICE_CACHE, promises, booted, nextFire, upSessions>>
    /\ UNCHANGED <<configVars, providerVars>>

\* stripe.checkout.sessions.create succeeds: the handler redirects to the
\* session's URL.
CheckoutSessionCreated(r) ==
    /\ r \in DOMAIN reqs
    /\ reqs[r].kind = "get-checkout" /\ reqs[r].pc = "creating"
    /\ LET sid == Len(upSessions) + 1 IN
       /\ upSessions' = Append(upSessions,
              [id |-> sid, url |-> SessionUrl(sid), mode |-> "payment",
               line_items |-> reqs[r].line_items, request |-> r])
       /\ reqs' = [reqs EXCEPT ![r].pc = "done",
                    ![r].response = [status |-> 303,
                                     body |-> [location |-> SessionUrl(sid)]]]
    /\ UNCHANGED <<now, PRODUCT_IDS, PRICE_CACHE, promises, booted, nextFire>>
    /\ UNCHANGED <<configVars, providerVars>>

\* stripe.checkout.sessions.create fails: the catch block answers.
CheckoutSessionFails(r, type) ==
    /\ r \in DOMAIN reqs
    /\ reqs[r].kind = "get-checkout" /\ reqs[r].pc = "creating"
    /\ reqs' = [reqs EXCEPT ![r].pc = "done", ![r].response = CheckoutCatch(type)]
    /\ UNCHANGED <<now, PRODUCT_IDS, PRICE_CACHE, promises, booted, nextFire, upSessions>>
    /\ UNCHANGED <<configVars, providerVars>>

\* The server with or without a Stripe key; nothing else is configured.
InitCheckout ==
    /\ now = BootMs
    /\ PRODUCT_IDS = <<>>
    /\ PRICE_CACHE = [data |-> NULL, ts |-> 0, loading |-> NoPromise]
    /\ promises = <<>>
    /\ booted = TRUE
    /\ nextFire = 0
    /\ reqs = <<>>
    /\ upSessions = <<>>
    /\ stripe \in BOOLEAN
    /\ BUNDLE_PRICE_ID = ""
    /\ SINGLE_UPGRADE_PRODUCT_IDS = <<>>
    /\ upCustomers = <<>>
    /\ upCoupons = <<>>
    /\ upPromotionCodes = <<>>

NextCheckout ==
    \/ \E q \in Queries : CheckoutRequest(q)
    \/ \E r \in 1..MaxCheckoutRequests : CheckoutSessionCreated(r)
    \/ \E r \in 1..MaxCheckoutRequests, type \in UpstreamErrorTypes :
            CheckoutSessionFails(r, type)

SpecCheckout == InitCheckout /\ [][NextCheckout]_vars

\* ==================================================== GET /prices (uncached)
MaxPricesRequests == 1

\* The PRODUCT_IDS the uncached server is run with: none, one, two, and one
\* id listed twice.
UncachedProductIdConfigs ==
    {<<>>, <<"prod_a">>, <<"prod_a", "prod_b">>, <<"prod_a", "prod_a">>}

\* The errors a provider call throws: with a raw message, with a message
\* only, and with neither.
NoMessage == <<>>
UpstreamErrors ==
    {[raw |-> <<"No such product">>, message |-> <<"No such product (req_1)">>],
     [raw |-> NoMessage, message |-> <<"connect ETIMEDOUT">>],
     [raw |-> NoMessage, message |-> NoMessage]}

\* What stripe.prices.list answers: the first active price (in a version), no
\* price, or an error.
ListAnswers ==
    [kind : {"price"}, version : PriceVersions, error : {NULL}]
        \cup {[kind |-> "none", version |-> 0, error |-> NULL]}
        \cup [kind : {"error"}, version : {0}, error : UpstreamErrors]
\* What stripe.products.retrieve answers: the product, or an error.
RetrieveAnswers ==
    {[kind |-> "product", error |-> NULL]} \cup [kind : {"error"}, error : UpstreamErrors]

\* err?.raw?.message || err?.message || "Stripe error (check ...)"
ErrorMessage(err) ==
    IF err.raw # NoMessage THEN err.raw
    ELSE IF err.message # NoMessage THEN err.message
    ELSE <<"Stripe error (check key/account/test-vs-live/product IDs)">>

\* getActivePriceForProduct, after stripe.prices.list answered: the value it
\* returns, or NULL when it goes on to stripe.products.retrieve.
AfterListNoCatch(pid, answer) ==
    IF answer.kind = "price" THEN PriceRecord(pid, answer.version) ELSE NULL
AfterList(pid, answer) ==
    IF answer.kind = "price" THEN PriceRecord(pid, answer.version)
    ELSE IF answer.kind = "error" THEN [error |-> ErrorMessage(answer.error)]
    ELSE NULL

\* getActivePriceForProduct, after stripe.products.retrieve answered.
AfterRetrieve(answer) ==
    IF answer.kind = "product"
    THEN [error |-> <<"No active prices found for this product">>]
    ELSE [error |-> ErrorMessage(answer.error)]

\* results[pid] = value
Assign(results, pid, value) ==
    [p \in DOMAIN results \cup {pid} |-> IF p = pid THEN value ELSE results[p]]

\* GET /prices (uncached): the request arrives; it is answered at once, or
\* every product's lookup starts with its stripe.prices.list call.
UncachedPricesRequest ==
    /\ Len(reqs) < MaxPricesRequests
    /\ IF ~stripe
       THEN reqs' = Append(reqs, [kind |-> "uncached-prices", pc |-> "done",
                lookups |-> <<>>, results |-> <<>>, calls |-> 0,
                response |-> [status |-> 500,
                    body |-> [error |-> <<"Server missing STRIPE_SECRET_KEY">>]]])
       ELSE IF Len(PRODUCT_IDS) = 0
       THEN reqs' = Append(reqs, [kind |-> "uncached-prices", pc |-> "done",
                lookups |-> <<>>, results |-> <<>>, calls |-> 0,
                response |-> [status |-> 200, body |-> <<>>]])
       ELSE reqs' = Append(reqs, [kind |-> "uncached-prices", pc |-> "lookups",
                lookups |-> [k \in DOMAIN PRODUCT_IDS |->
                                [pc |-> "listing", listed |-> NULL, retrieved |-> NULL]],
                results |-> <<>>, calls |-> Len(PRODUCT_IDS),
                response |-> NoResponse])
    /\ UNCHANGED <<now, PRODUCT_IDS, PRICE_CACHE, promises, booted, nextFire, upSessions>>
    /\ UNCHANGED <<configVars, providerVars>>

\* stripe.prices.list answers lookup k of request r: the lookup returns (and
\* the mapper stores its value under the product's id), or goes on to
\* stripe.products.retrieve.
PricesListed(r, k, answer) ==
    /\ r \in DOMAIN reqs
    /\ reqs[r].kind = "uncached-prices" /\ reqs[r].pc = "lookups"
    /\ k \in DOMAIN reqs[r].lookups
    /\ reqs[r].lookups[k].pc = "listing"
    /\ LET value == AfterList(PRODUCT_IDS[k], answer) IN
       IF answer.kind = "none"
       THEN reqs' = [reqs EXCEPT ![r].lookups[k].pc = "retrieving",
                                 ![r].lookups[k].listed = answer,
                                 ![r].calls = @ + 1]
       ELSE reqs' = [reqs EXCEPT ![r].lookups[k].pc = "done",
                                 ![r].lookups[k].listed = answer,
                                 ![r].results = Assign(@, PRODUCT_IDS[k], value)]
    /\ UNCHANGED <<now, PRODUCT_IDS, PRICE_CACHE, promises, booted, nextFire, upSessions>>
    /\ UNCHANGED <<configVars, providerVars>>

\* stripe.products.retrieve answers lookup k of request r.
ProductRetrieved(r, k, answer) ==
    /\ r \in DOMAIN reqs
    /\ reqs[r].kind = "uncached-prices" /\ reqs[r].pc = "lookups"
    /\ k \in DOMAIN reqs[r].lookups
    /\ reqs[r].lookups[k].pc = "retrieving"
    /\ reqs' = [reqs EXCEPT ![r].lookups[k].pc = "done",
                            ![r].lookups[k].retrieved = answer,
                            ![r].results = Assign(@, PRODUCT_IDS[k], AfterRetrieve(answer))]
    /\ UNCHANGED <<now, PRODUCT_IDS, PRICE_CACHE, promises, booted, nextFire, upSessions>>
    /\ UNCHANGED <<configVars, providerVars>>

\* Promise.all resolves once every lookup returned: res.json(results).
UncachedPricesResponds(r) ==
    /\ r \in DOMAIN reqs
    /\ reqs[r].kind = "uncached-prices" /\ reqs[r].pc = "lookups"
    /\ \A k \in DOMAIN reqs[r].lookups : reqs[r].lookups[k].pc = "done"
    /\ reqs' = [reqs EXCEPT ![r].pc = "done",
                            ![r].response = [status |-> 200, body |-> reqs[r].results]]
    /\ UNCHANGED <<now, PRODUCT_IDS, PRICE_CACHE, promises, booted, nextFire, upSessions>>
    /\ UNCHANGED <<configVars, providerVars>>

\* The uncached server, with or without a Stripe key.
InitPrices ==
    /\ now = BootMs
    /\ PRODUCT_IDS \in UncachedProductIdConfigs
    /\ PRICE_CACHE = [data |-> NULL, ts |-> 0, loading |-> NoPromise]
    /\ promises = <<>>
    /\ booted = TRUE
    /\ nextFire = 0
    /\ reqs = <<>>
    /\ upSessions = <<>>
    /\ stripe \in BOOLEAN
    /\ BUNDLE_PRICE_ID = ""
    /\ SINGLE_UPGRADE_PRODUCT_IDS = <<>>
    /\ upCustomers = <<>>
    /\ upCoupons = <<>>
    /\ upPromotionCodes = <<>>

\* The positions of the configured ids.
LookupIndices == UNION {DOMAIN ids : ids \in UncachedProductIdConfigs}

NextPrices ==
    \/ UncachedPricesRequest
    \/ \E r \in 1..MaxPricesRequests, k \in LookupIndices, answer \in ListAnswers :
            PricesListed(r, k, answer)
    \/ \E r \in 1..MaxPricesRequests, k \in LookupIndices, answer \in RetrieveAnswers :
            ProductRetrieved(r, k, answer)
    \/ \E r \in 1..MaxPricesRequests : UncachedPricesResponds(r)

SpecPrices == InitPrices /\ [][NextPrices]_vars

\* ==================================================== POST /checkout/credit
MaxCreditRequests == 1

\* The value of the bundle, in pence: the cap on the credit.
CreditCap == 14900
\* limit: 100 of stripe.checkout.sessions.list and of listLineItems.
SessionListLimit == 100
LineItemListLimit == 100

SUCCESS_URL == "https://golf-jobs.com/upgrade/success"

\* A line item of a session: item.price.product is a product id or, when
\* expanded, a product object; amount_total is in pence.
Item(form, id, amount) == [product |-> [form |-> form, id |-> id], amount_total |-> amount]
Single(amount) == Item("string", "prod_single", amount)
SingleExpanded(amount) == Item("object", "prod_single2", amount)
Bundle(amount) == Item("string", "prod_bundle", amount)

\* A checkout session the customer had before the request.
Earlier(status, items) ==
    [customer |-> 1, payment_status |-> status, line_items |-> items]

\* The purchase histories the handler is tried on, oldest session first: no
\* session; one paid single upgrade; an unpaid single upgrade and a paid
\* bundle; a paid session of two items and a second paid session, 100 short
\* of the cap; paid sessions that add up to the cap exactly; paid sessions
\* beyond the cap; a free upgrade; and a paid single upgrade followed by 99
\* and by 100 abandoned (unpaid) sessions.
Abandoned(n) == [i \in 1..n |-> Earlier("unpaid", <<Bundle(14900)>>)]
Histories ==
    {<<>>,
     <<Earlier("paid", <<Single(4900)>>)>>,
     <<Earlier("unpaid", <<Single(4900)>>), Earlier("paid", <<Bundle(14900)>>)>>,
     <<Earlier("paid", <<SingleExpanded(4900), Bundle(2000)>>),
       Earlier("paid", <<Single(9900)>>)>>,
     <<Earlier("paid", <<Single(4900)>>), Earlier("paid", <<Single(9900)>>),
       Earlier("paid", <<SingleExpanded(100)>>)>>,
     <<Earlier("paid", <<Single(9900)>>), Earlier("paid", <<SingleExpanded(9900)>>)>>,
     <<Earlier("paid", <<Single(0)>>)>>,
     <<Earlier("paid", <<Single(4900)>>)>> \o Abandoned(SessionListLimit - 1),
     <<Earlier("paid", <<Single(4900)>>)>> \o Abandoned(SessionListLimit)}

\* The provider's sessions for a history: each with its id and no discount.
HistorySessions(h) ==
    [i \in DOMAIN h |->
        [id |-> i, url |-> SessionUrl(i), customer |-> h[i].customer,
         payment_status |-> h[i].payment_status, line_items |-> h[i].line_items,
         discounts |-> <<>>, metadata |-> NULL, idempotencyKey |-> <<>>,
         request |-> 0]]

Emails == {"", "pro@golf.club"}
JobIds == {"", "job_7"}

RECURSIVE SumAmounts(_)
SumAmounts(items) ==
    IF items = <<>> THEN 0
    ELSE items[1].amount_total + SumAmounts(Tail(items))

\* The first n elements of a list (a page of at most n).
Page(list, n) == IF Len(list) <= n THEN list ELSE SubSeq(list, 1, n)

Reverse(list) == [i \in DOMAIN list |-> list[Len(list) + 1 - i]]

\* stripe.customers.list({ email, limit: 1 }): the newest customer with the
\* email, if any.
CustomersWith(email) == {i \in DOMAIN upCustomers : upCustomers[i].email = email}
Max(S) == CHOOSE x \in S : \A y \in S : x >= y

\* stripe.checkout.sessions.list({ customer, limit: 100 }): the ids of the
\* customer's sessions, newest first, one page of them.
SessionsList(customer) ==
    LET ids == [i \in DOMAIN upSessions |-> i]
        mine(i) == upSessions[i].customer = customer
    IN  Page(Reverse(SelectSeq(ids, mine)), SessionListLimit)

\* sessions.data.filter(session => session.payment_status === 'paid')
PaidSessions(ids) ==
    LET paid(i) == upSessions[i].payment_status = "paid" IN SelectSeq(ids, paid)

\* The product id of a line item, "" when there is none.
ProductId(item) ==
    IF item.product.form = "string" THEN item.product.id
    ELSE IF item.product.form = "object" THEN item.product.id
    ELSE ""

\* productId && SINGLE_UPGRADE_PRODUCT_IDS.includes(productId)
CountsAsCredit(item) ==
    ProductId(item) # "" /\ ProductId(item) \in Range(SINGLE_UPGRADE_PRODUCT_IDS)

\* What one paid session adds to totalCredit: the inner loop over the page of
\* its line items.
CreditOfSession(sid) ==
    SumAmounts(SelectSeq(Page(upSessions[sid].line_items, LineItemListLimit),
                         CountsAsCredit))

\* Math.min(totalCredit, 14900)
CapNone(total) == total
Cap(total) == IF total < CreditCap THEN total ELSE CreditCap

\* if (totalCredit > 0): a coupon is minted.
NeedsCouponAlways(total) == total >= 0
NeedsCoupon(total) == total > 0

\* The provider calls of the handler that may be awaiting an answer.
CreditAwaiting ==
    {"customers.list", "customers.create", "sessions.list", "listLineItems",
     "coupons.create", "promotionCodes.create", "sessions.create"}

\* What the catch block answers for an error of the given type.
CreditCatch(type) ==
    IF type = "StripeCardError"
    THEN [status |-> 400, body |-> [error |-> <<"Payment method issue">>]]
    ELSE IF type = "StripeInvalidRequestError"
    THEN [status |-> 400, body |-> [error |-> <<"Invalid request to Stripe">>]]
    ELSE [status |-> 500, body |-> [error |-> <<"Unable to create checkout session">>]]

CreditErrorTypes == {"StripeCardError", "StripeInvalidRequestError", "StripeAPIError"}

\* A validation of the email alone.
CreditValidationEmailOnly(email) ==
    IF email = ""
    THEN [status |-> 400, body |-> [error |-> <<"Email is required">>]]
    ELSE NoResponse

\* The validation at the head of the handler: the answer, or NoResponse when
\* the request passes.
CreditValidation(email) ==
    IF email = ""
    THEN [status |-> 400, body |-> [error |-> <<"Email is required">>]]
    ELSE IF ~stripe
    THEN [status |-> 500, body |-> [error |-> <<"Server missing STRIPE_SECRET_KEY">>]]
    ELSE IF BUNDLE_PRICE_ID = ""
    THEN [status |-> 500, body |-> [error |-> <<"Bundle product not configured">>]]
    ELSE IF Len(SINGLE_UPGRADE_PRODUCT_IDS) = 0
    THEN [status |-> 500, body |-> [error |-> <<"Single upgrade products not configured">>]]
    ELSE NoResponse

\* POST /checkout/credit: the request arrives; it is refused, or the handler
\* calls stripe.customers.list.
CreditArrives(email, jobId) ==
    /\ reqs' = Append(reqs,
          [kind |-> "credit", email |-> email, jobId |-> jobId,
           pc |-> IF CreditValidation(email) = NoResponse THEN "customers.list" ELSE "done",
           calls |-> IF CreditValidation(email) = NoResponse THEN 1 ELSE 0,
           customer |-> 0, paid |-> <<>>, next |-> 0,
           originalCredit |-> -1, totalCredit |-> 0,
           coupon |-> 0, promotionCode |-> 0,
           response |-> CreditValidation(email)])
    /\ UNCHANGED <<upSessions, providerVars>>
    /\ UNCHANGED <<now, PRODUCT_IDS, PRICE_CACHE, promises, booted, nextFire>>
    /\ UNCHANGED configVars

CreditRequest(email, jobId) ==
    /\ Len(reqs) < MaxCreditRequests
    /\ CreditArrives(email, jobId)

\* The handler without the already-covered return.
AfterCreditNeverCovered(req, total) ==
    LET counted == [req EXCEPT !.originalCredit = total, !.totalCredit = Cap(total)] IN
    IF NeedsCoupon(Cap(total))
    THEN [counted EXCEPT !.pc = "coupons.create", !.calls = @ + 1]
    ELSE [counted EXCEPT !.pc = "sessions.create", !.calls = @ + 1]

\* The handler after the loop over the paid sessions, with the credit found:
\* it caps the credit and answers that the bundle is already covered, or
\* calls stripe.coupons.create, or (no credit) stripe.checkout.sessions.create.
AfterCredit(req, total) ==
    LET counted == [req EXCEPT !.originalCredit = total, !.totalCredit = Cap(total)] IN
    IF Cap(total) >= CreditCap
    THEN [counted EXCEPT !.pc = "done",
            !.response = [status |-> 200,
                body |-> [alreadyCovered |-> TRUE,
                          message |-> "You already have the Max Visibility Upgrade!",
                          redirectUrl |-> SUCCESS_URL]]]
    ELSE IF NeedsCoupon(Cap(total))
    THEN [counted EXCEPT !.pc = "coupons.create", !.calls = @ + 1]
    ELSE [counted EXCEPT !.pc = "sessions.create", !.calls = @ + 1]

\* The handler with the customer in hand: it calls
\* stripe.checkout.sessions.list.
WithCustomer(req, customer) ==
    [req EXCEPT !.customer = customer, !.pc = "sessions.list", !.calls = @ + 1]

\* stripe.customers.list answers: the customer is found, or the handler calls
\* stripe.customers.create.
CustomersListed(r) ==
    /\ r \in DOMAIN reqs
    /\ reqs[r].kind = "credit" /\ reqs[r].pc = "customers.list"
    /\ IF CustomersWith(reqs[r].email) # {}
       THEN reqs' = [reqs EXCEPT ![r] = WithCustomer(@, Max(CustomersWith(reqs[r].email)))]
       ELSE reqs' = [reqs EXCEPT ![r].pc = "customers.create", ![r].calls = @ + 1]
    /\ UNCHANGED <<upSessions, providerVars>>
    /\ UNCHANGED <<now, PRODUCT_IDS, PRICE_CACHE, promises, booted, nextFire>>
    /\ UNCHANGED configVars

\* stripe.customers.create answers: the provider holds a new customer.
CustomerCreated(r) ==
    /\ r \in DOMAIN reqs
    /\ reqs[r].kind = "credit" /\ reqs[r].pc = "customers.create"
    /\ upCustomers' = Append(upCustomers,
            [id |-> Len(upCustomers) + 1, email |-> reqs[r].email, request |-> r])
    /\ reqs' = [reqs EXCEPT ![r] = WithCustomer(@, Len(upCustomers) + 1)]
    /\ UNCHANGED <<upSessions, upCoupons, upPromotionCodes>>
    /\ UNCHANGED <<now, PRODUCT_IDS, PRICE_CACHE, promises, booted, nextFire>>
    /\ UNCHANGED configVars

\* stripe.checkout.sessions.list answers with a page of the customer's
\* sessions: the handler keeps the paid ones and asks for the line items of
\* the first, or has none to ask for.
SessionsListed(r) ==
    /\ r \in DOMAIN reqs
    /\ reqs[r].kind = "credit" /\ reqs[r].pc = "sessions.list"
    /\ LET paid == PaidSessions(SessionsList(reqs[r].customer)) IN
       IF paid = <<>>
       THEN reqs' = [reqs EXCEPT ![r] = AfterCredit(@, 0)]
       ELSE reqs' = [reqs EXCEPT ![r].paid = paid, ![r].next = 1,
                                 ![r].pc = "listLineItems", ![r].calls = @ + 1]
    /\ UNCHANGED <<upSessions, providerVars>>
    /\ UNCHANGED <<now, PRODUCT_IDS, PRICE_CACHE, promises, booted, nextFire>>
    /\ UNCHANGED configVars

\* stripe.checkout.sessions.listLineItems answers for the paid session in
\* turn: its creditable amounts are added, and the next paid session is asked
\* for, or the loop ends.
LineItemsListed(r) ==
    /\ r \in DOMAIN reqs
    /\ reqs[r].kind = "credit" /\ reqs[r].pc = "listLineItems"
    /\ LET total == reqs[r].totalCredit + CreditOfSession(reqs[r].paid[reqs[r].next]) IN
       IF reqs[r].next < Len(reqs[r].paid)
       THEN reqs' = [reqs EXCEPT ![r].totalCredit = total, ![r].next = @ + 1,
                                 ![r].calls = @ + 1]
       ELSE reqs' = [reqs EXCEPT ![r] = AfterCredit(@, total)]
    /\ UNCHANGED <<upSessions, providerVars>>
    /\ UNCHANGED <<now, PRODUCT_IDS, PRICE_CACHE, promises, booted, nextFire>>
    /\ UNCHANGED configVars

\* stripe.coupons.create answers: the provider holds a new coupon, and the
\* handler calls stripe.promotionCodes.create.
CouponCreated(r) ==
    /\ r \in DOMAIN reqs
    /\ reqs[r].kind = "credit" /\ reqs[r].pc = "coupons.create"
    /\ upCoupons' = Append(upCoupons,
            [id |-> Len(upCoupons) + 1, amount_off |-> reqs[r].totalCredit,
             currency |-> "gbp", duration |-> "once",
             metadata |-> [customer_email |-> reqs[r].email,
                           credit_amount |-> reqs[r].totalCredit,
                           job_id |-> reqs[r].jobId],
             request |-> r])
    /\ reqs' = [reqs EXCEPT ![r].coupon = Len(upCoupons) + 1,
                            ![r].pc = "promotionCodes.create", ![r].calls = @ + 1]
    /\ UNCHANGED <<upSessions, upCustomers, upPromotionCodes>>
    /\ UNCHANGED <<now, PRODUCT_IDS, PRICE_CACHE, promises, booted, nextFire>>
    /\ UNCHANGED configVars

\* stripe.promotionCodes.create answers: the provider holds a new promotion
\* code, and the handler calls stripe.checkout.sessions.create.
PromotionCodeCreated(r) ==
    /\ r \in DOMAIN reqs
    /\ reqs[r].kind = "credit" /\ reqs[r].pc = "promotionCodes.create"
    /\ upPromotionCodes' = Append(upPromotionCodes,
            [id |-> Len(upPromotionCodes) + 1, coupon |-> reqs[r].coupon,
             max_redemptions |-> 1, customer |-> reqs[r].customer,
             expires_at |-> (now \div 1000) + 7 * 24 * 60 * 60,
             times_redeemed |-> 0,
             request |-> r])
    /\ reqs' = [reqs EXCEPT ![r].promotionCode = Len(upPromotionCodes) + 1,
                            ![r].pc = "sessions.create", ![r].calls = @ + 1]
    /\ UNCHANGED <<upSessions, upCustomers, upCoupons>>
    /\ UNCHANGED <<now, PRODUCT_IDS, PRICE_CACHE, promises, booted, nextFire>>
    /\ UNCHANGED configVars

\* `bundle-credit-${customer.id}-${totalCredit}-${jobId || 'none'}-${Date.now()}`
IdempotencyKey(req) ==
    <<"bundle-credit", req.customer, req.totalCredit,
      IF req.jobId = "" THEN "none" ELSE req.jobId, now>>

\* sessionConfig.discounts: the promotion code, if one was created.
Discounts(req) ==
    IF req.promotionCode # 0 THEN <<[promotion_code |-> req.promotionCode]>> ELSE <<>>

\* The provider's sessions created with the given idempotency key.
SessionsWithKey(key) ==
    {i \in DOMAIN upSessions : upSessions[i].idempotencyKey = key}

\* The metadata of sessionConfig.
SessionMetadata(req) ==
    [jobId |-> req.jobId, credit_applied |-> req.totalCredit,
     email |-> req.email, source |-> "credit-checkout"]

\* The provider replays a create call whose key and parameters it has seen;
\* the same key with other parameters is an error of the call.
Replayable(req) ==
    \A i \in SessionsWithKey(IdempotencyKey(req)) :
        /\ upSessions[i].customer = req.customer
        /\ upSessions[i].discounts = Discounts(req)
        /\ upSessions[i].metadata = SessionMetadata(req)

\* stripe.checkout.sessions.create answers: the provider holds a new session
\* for the bundle (or, the key having been used, answers with the session it
\* made then), and the handler answers with its URL, the credit and the
\* balance.
CreditSessionCreated(r) ==
    /\ r \in DOMAIN reqs
    /\ reqs[r].kind = "credit" /\ reqs[r].pc = "sessions.create"
    /\ Replayable(reqs[r])
    /\ LET key == IdempotencyKey(reqs[r])
           sid == IF SessionsWithKey(key) # {} THEN Min(SessionsWithKey(key))
                  ELSE Len(upSessions) + 1
       IN  /\ IF SessionsWithKey(key) # {}
              THEN UNCHANGED upSessions
              ELSE upSessions' = Append(upSessions,
                    [id |-> sid, url |-> SessionUrl(sid), customer |-> reqs[r].customer,
                     payment_status |-> "unpaid",
                     line_items |-> <<Item("string", "prod_bundle",
                                           CreditCap - reqs[r].totalCredit)>>,
                     discounts |-> Discounts(reqs[r]),
                     metadata |-> SessionMetadata(reqs[r]),
                     idempotencyKey |-> key,
                     request |-> r])
           /\ reqs' = [reqs EXCEPT ![r].pc = "done",
                        ![r].response = [status |-> 200,
                            body |-> [url |-> SessionUrl(sid),
                                      credit |-> reqs[r].totalCredit,
                                      balance |-> CreditCap - reqs[r].totalCredit]]]
    /\ UNCHANGED providerVars
    /\ UNCHANGED <<now, PRODUCT_IDS, PRICE_CACHE, promises, booted, nextFire>>
    /\ UNCHANGED configVars

\* A provider call of the handler fails: the catch block answers.
CreditCallFails(r, type) ==
    /\ r \in DOMAIN reqs
    /\ reqs[r].kind = "credit" /\ reqs[r].pc \in CreditAwaiting
    /\ reqs' = [reqs EXCEPT ![r].pc = "done", ![r].response = CreditCatch(type)]
    /\ UNCHANGED <<upSessions, providerVars>>
    /\ UNCHANGED <<now, PRODUCT_IDS, PRICE_CACHE, promises, booted, nextFire>>
    /\ UNCHANGED configVars

\* The configurations the credit handler is run with: everything set, and
\* each of the three settings missing.
CreditConfigs ==
    {[stripe |-> TRUE, bundle |-> "price_bundle",
      singles |-> <<"prod_single", "prod_single2">>],
     [stripe |-> FALSE, bundle |-> "price_bundle",
      singles |-> <<"prod_single", "prod_single2">>],
     [stripe |-> TRUE, bundle |-> "", singles |-> <<"prod_single", "prod_single2">>],
     [stripe |-> TRUE, bundle |-> "price_bundle", singles |-> <<>>]}

\* The server as configured, and a provider that holds no customer, or one
\* customer with one of the purchase histories.
InitCredit ==
    /\ now = BootMs
    /\ PRODUCT_IDS = <<>>
    /\ PRICE_CACHE = [data |-> NULL, ts |-> 0, loading |-> NoPromise]
    /\ promises = <<>>
    /\ booted = TRUE
    /\ nextFire = 0
    /\ reqs = <<>>
    /\ \E c \in CreditConfigs :
         /\ stripe = c.stripe
         /\ BUNDLE_PRICE_ID = c.bundle
         /\ SINGLE_UPGRADE_PRODUCT_IDS = c.singles
    /\ \/ upCustomers = <<>> /\ upSessions = <<>>
       \/ /\ upCustomers = <<[id |-> 1, email |-> "pro@golf.club", request |-> 0]>>
          /\ \E h \in Histories : upSessions = HistorySessions(h)
    /\ upCoupons = <<>>
    /\ upPromotionCodes = <<>>

NextCredit ==
    \/ \E email \in Emails, jobId \in JobIds : CreditRequest(email, jobId)
    \/ \E r \in 1..MaxCreditRequests : CustomersListed(r)
    \/ \E r \in 1..MaxCreditRequests : CustomerCreated(r)
    \/ \E r \in 1..MaxCreditRequests : SessionsListed(r)
    \/ \E r \in 1..MaxCreditRequests : LineItemsListed(r)
    \/ \E r \in 1..MaxCreditRequests : CouponCreated(r)
    \/ \E r \in 1..MaxCreditRequests : PromotionCodeCreated(r)
    \/ \E r \in 1..MaxCreditRequests : CreditSessionCreated(r)
    \/ \E r \in 1..MaxCreditRequests, type \in CreditErrorTypes : CreditCallFails(r, type)

SpecCredit == InitCredit /\ [][NextCredit]_vars

\* ---------------------------------------- POST /checkout/credit, repeated
MaxRepeats == 2
MaxRepeatTicks == 1

\* One more request of the customer with the email "pro@golf.club".
RepeatedCreditRequest(jobId) ==
    /\ Len(reqs) < MaxRepeats
    /\ CreditArrives("pro@golf.club", jobId)

\* Date.now() advances between the steps of the handlers.
TimePasses ==
    /\ now + TickMs <= BootMs + MaxRepeatTicks * TickMs
    /\ now' = now + TickMs
    /\ UNCHANGED <<reqs, upSessions, providerVars>>
    /\ UNCHANGED <<PRODUCT_IDS, PRICE_CACHE, promises, booted, nextFire>>
    /\ UNCHANGED configVars

\* The provider redeems a promotion code that was redeemed less often than
\* max_redemptions and has not expired.
Redeemable(p) ==
    /\ upPromotionCodes[p].times_redeemed < upPromotionCodes[p].max_redemptions
    /\ now \div 1000 < upPromotionCodes[p].expires_at

\* The promotion codes among a session's discounts.
DiscountCodes(i) ==
    {upSessions[i].discounts[k].promotion_code : k \in DOMAIN upSessions[i].discounts}

\* The customer pays a checkout session the handler created (mode
\* 'payment'): the session is paid and its promotion code redeemed.
SessionPaid(i) ==
    /\ i \in DOMAIN upSessions
    /\ upSessions[i].request # 0
    /\ upSessions[i].payment_status = "unpaid"
    /\ \A p \in DiscountCodes(i) : Redeemable(p)
    /\ upSessions' = [upSessions EXCEPT ![i].payment_status = "paid"]
    /\ upPromotionCodes' =
          [p \in DOMAIN upPromotionCodes |->
              IF p \in DiscountCodes(i)
              THEN [upPromotionCodes[p] EXCEPT !.times_redeemed = @ + 1]
              ELSE upPromotionCodes[p]]
    /\ UNCHANGED <<now, reqs, upCustomers, upCoupons>>
    /\ UNCHANGED <<PRODUCT_IDS, PRICE_CACHE, promises, booted, nextFire>>
    /\ UNCHANGED configVars

\* The purchase histories of the customer who asks repeatedly: none, and one
\* paid single upgrade.
RepeatHistories == {<<>>, <<Earlier("paid", <<Single(4900)>>)>>}

\* The server fully configured, and a provider that does not know the
\* customer yet, or knows the customer with one of the histories.
InitRepeat ==
    /\ now = BootMs
    /\ PRODUCT_IDS = <<>>
    /\ PRICE_CACHE = [data |-> NULL, ts |-> 0, loading |-> NoPromise]
    /\ promises = <<>>
    /\ booted = TRUE
    /\ nextFire = 0
    /\ reqs = <<>>
    /\ stripe = TRUE
    /\ BUNDLE_PRICE_ID = "price_bundle"
    /\ SINGLE_UPGRADE_PRODUCT_IDS = <<"prod_single", "prod_single2">>
    /\ \/ upCustomers = <<>> /\ upSessions = <<>>
       \/ /\ upCustomers = <<[id |-> 1, email |-> "pro@golf.club", request |-> 0]>>
          /\ \E h \in RepeatHistories : upSessions = HistorySessions(h)
    /\ upCoupons = <<>>
    /\ upPromotionCodes = <<>>

NextRepeat ==
    \/ RepeatedCreditRequest("job_7")
    \/ TimePasses
    \/ \E r \in 1..MaxRepeats : CustomersListed(r)
    \/ \E r \in 1..MaxRepeats : CustomerCreated(r)
    \/ \E r \in 1..MaxRepeats : SessionsListed(r)
    \/ \E r \in 1..MaxRepeats : LineItemsListed(r)
    \/ \E r \in 1..MaxRepeats : CouponCreated(r)
    \/ \E r \in 1..MaxRepeats : PromotionCodeCreated(r)
    \/ \E r \in 1..MaxRepeats : CreditSessionCreated(r)
    \/ \E r \in 1..MaxRepeats : CreditCallFails(r, "StripeAPIError")
    \/ \E i \in 1..(MaxRepeats + 1) : SessionPaid(i)

SpecRepeat == InitRepeat /\ [][NextRepeat]_vars

\* ==================================================== getLatestOneTimePrice
MaxCatalog == 3

\* limit: 10 of stripe.prices.list.
PriceListLimit == 10

PriceTypes == {"one_time", "recurring"}
CreatedAt == {1, 2}

\* What distinguishes the prices of a product.
PriceKinds == [active : BOOLEAN, type : PriceTypes, created : CreatedAt]

\* More active one-time prices than one page of the list holds, the newest
\* last.
ManyPrices ==
    [i \in 1..(PriceListLimit + 1) |->
        [active |-> TRUE, type |-> "one_time", created |-> i]]

\* The prices the provider holds for the product, in the order in which it
\* lists them.
Catalogs ==
    UNION {[1..n -> PriceKinds] : n \in 0..MaxCatalog} \cup {ManyPrices}

\* product.default_price: absent, the id of one of the prices, or the price
\* itself.
DefaultPrices(kinds) ==
    {[form |-> "none", index |-> 0]}
        \cup [form : {"string", "object"}, index : DOMAIN kinds]

\* The i-th price of the product, as the provider returns it.
PriceAt(pid, kinds, i) ==
    [id |-> <<"price", pid, i>>, active |-> kinds[i].active, type |-> kinds[i].type,
     created |-> kinds[i].created, unit_amount |-> 100 * i, currency |-> "gbp"]

\* { unit_amount, currency, price_id }
PriceInfo(price) ==
    [unit_amount |-> price.unit_amount, currency |-> price.currency,
     price_id |-> price.id]

\* price && price.active && price.type === 'one_time'
UsablePrice(price) ==
    IF price = NULL THEN FALSE ELSE price.active /\ price.type = "one_time"

\* stripe.prices.list({ product, active: true, type: 'one_time', limit: 10 })
ListedPrices(pid, kinds) ==
    LET all == [i \in DOMAIN kinds |-> PriceAt(pid, kinds, i)]
        wanted(price) == price.active /\ price.type = "one_time"
    IN  Page(SelectSeq(all, wanted), PriceListLimit)

\* list.data.sort((a, b) => b.created - a.created)[0]
NewestFirstListed(list) == list[1]
Newest(list) ==
    list[Min({i \in DOMAIN list :
                \A j \in DOMAIN list : list[i].created >= list[j].created})]

NoOutcome == [status |-> "pending"]
Returned(info) == [status |-> "returned", value |-> info]
Thrown(msg) == [status |-> "thrown", value |-> [message |-> msg]]

\* A call of getLatestOneTimePrice(pid) that awaits stripe.products.retrieve.
LookupOf(pid, kinds, default) ==
    [kind |-> "lookup", pc |-> "products.retrieve", productId |-> pid,
     kinds |-> kinds, default_price |-> default, price |-> NULL,
     listed |-> FALSE, outcome |-> NoOutcome]

\* The lookup with the default price in hand: it returns it, or falls back
\* to stripe.prices.list.
AfterDefaultPrice(q, price) ==
    IF UsablePrice(price)
    THEN [q EXCEPT !.pc = "done", !.price = price,
                   !.outcome = Returned(PriceInfo(price))]
    ELSE [q EXCEPT !.pc = "prices.list", !.price = price, !.listed = TRUE]

\* stripe.products.retrieve answers.
LookupProductRetrieved(r) ==
    /\ r \in DOMAIN reqs
    /\ reqs[r].kind = "lookup" /\ reqs[r].pc = "products.retrieve"
    /\ LET q == reqs[r] IN
       IF q.default_price.form = "none"
       THEN reqs' = [reqs EXCEPT ![r].pc = "prices.list", ![r].listed = TRUE]
       ELSE IF q.default_price.form = "string"
       THEN reqs' = [reqs EXCEPT ![r].pc = "prices.retrieve"]
       ELSE reqs' = [reqs EXCEPT ![r] =
                AfterDefaultPrice(q, PriceAt(q.productId, q.kinds, q.default_price.index))]
    /\ UNCHANGED <<now, PRODUCT_IDS, PRICE_CACHE, promises, booted, nextFire, upSessions>>
    /\ UNCHANGED <<configVars, providerVars>>

\* stripe.prices.retrieve(product.default_price) answers.
DefaultPriceRetrieved(r) ==
    /\ r \in DOMAIN reqs
    /\ reqs[r].kind = "lookup" /\ reqs[r].pc = "prices.retrieve"
    /\ LET q == reqs[r] IN
       reqs' = [reqs EXCEPT ![r] =
            AfterDefaultPrice(q, PriceAt(q.productId, q.kinds, q.default_price.index))]
    /\ UNCHANGED <<now, PRODUCT_IDS, PRICE_CACHE, promises, booted, nextFire, upSessions>>
    /\ UNCHANGED <<configVars, providerVars>>

\* stripe.prices.list answers: the lookup throws on an empty list, else
\* returns the newest of the listed prices.
LookupPricesListed(r) ==
    /\ r \in DOMAIN reqs
    /\ reqs[r].kind = "lookup" /\ reqs[r].pc = "prices.list"
    /\ LET q == reqs[r]
           list == ListedPrices(q.productId, q.kinds)
       IN  IF Len(list) = 0
           THEN reqs' = [reqs EXCEPT ![r].pc = "done",
                    ![r].outcome = Thrown(<<"No active one-time price for product ",
                                            q.productId>>)]
           ELSE reqs' = [reqs EXCEPT ![r].pc = "done",
                    ![r].outcome = Returned(PriceInfo(Newest(list)))]
    /\ UNCHANGED <<now, PRODUCT_IDS, PRICE_CACHE, promises, booted, nextFire, upSessions>>
    /\ UNCHANGED <<configVars, providerVars>>

\* The awaited call of the lookup fails: the lookup rejects with its error.
LookupCallFails(r) ==
    /\ r \in DOMAIN reqs
    /\ reqs[r].kind = "lookup"
    /\ reqs[r].pc \in {"products.retrieve", "prices.retrieve", "prices.list"}
    /\ reqs' = [reqs EXCEPT ![r].pc = "done",
                            ![r].outcome = Thrown(<<"upstream error">>)]
    /\ UNCHANGED <<now, PRODUCT_IDS, PRICE_CACHE, promises, booted, nextFire, upSessions>>
    /\ UNCHANGED <<configVars, providerVars>>

\* One lookup, for a product with any of the catalogs and default prices.
InitLookup ==
    /\ now = BootMs
    /\ PRODUCT_IDS = <<"prod_a">>
    /\ PRICE_CACHE = [data |-> NULL, ts |-> 0, loading |-> NoPromise]
    /\ promises = <<>>
    /\ booted = TRUE
    /\ nextFire = 0
    /\ \E kinds \in Catalogs : \E default \in DefaultPrices(kinds) :
          reqs = <<LookupOf("prod_a", kinds, default)>>
    /\ upSessions = <<>>
    /\ stripe = TRUE
    /\ BUNDLE_PRICE_ID = ""
    /\ SINGLE_UPGRADE_PRODUCT_IDS = <<>>
    /\ upCustomers = <<>>
    /\ upCoupons = <<>>
    /\ upPromotionCodes = <<>>

NextLookup ==
    \/ \E r \in DOMAIN reqs : LookupProductRetrieved(r)
    \/ \E r \in DOMAIN reqs : DefaultPriceRetrieved(r)
    \/ \E r \in DOMAIN reqs : LookupPricesListed(r)
    \/ \E r \in DOMAIN reqs : LookupCallFails(r)

SpecLookup == InitLookup /\ [][NextLookup]_vars

\* ================================================================= claims
\* A step in which getCachedPrices is called: by the boot warm-up, by the
\* refresh timer, or by a request that arrives and reaches the call.
RequestArrives == Len(reqs') = Len(reqs) + 1
CallArrives ==
    \/ ~booted /\ booted'
    \/ booted /\ nextFire' # nextFire
    \/ RequestArrives /\ reqs'[Len(reqs')].pc = "await"

\* The age of the cached data.
Age == now - PRICE_CACHE.ts

\* C1: single-flight price load.  At most one fetchAllPrices load is in
\* flight at any time; a getCachedPrices call (from GET /prices, POST
\* /create-checkout-session, the warm-up or the timer) that arrives while a
\* load is in flight starts no load and returns the promise of that load; and
\* a GET /prices that waited on a load answers with that load's result.
C1_SingleFlight ==
    /\ [](Cardinality(InFlight) <= 1)
    /\ [][CallArrives /\ InFlight # {} =>
            /\ promises' = promises
            /\ GetCachedPricesResult.src = "load"
            /\ GetCachedPricesResult.promise \in InFlight
            /\ RequestArrives =>
                 /\ reqs'[Len(reqs')].handle.src = "load"
                 /\ reqs'[Len(reqs')].handle.promise \in InFlight]_vars
    /\ [](\A r \in DOMAIN reqs :
            (reqs[r].kind = "prices" /\ reqs[r].pc = "done"
                /\ reqs[r].handle.src = "load"
                /\ promises[reqs[r].handle.promise].state = "fulfilled")
            => reqs[r].response =
                 [status |-> 200, body |-> promises[reqs[r].handle.promise].value])

\* Two requests wait on the one load in flight, which the warm-up started.
C1_Witness ==
    /\ Len(reqs) >= 2
    /\ InFlight = {1}
    /\ reqs[1].pc = "await" /\ reqs[1].handle.src = "load" /\ reqs[1].handle.promise = 1
    /\ reqs[2].pc = "await" /\ reqs[2].handle.src = "load" /\ reqs[2].handle.promise = 1
    /\ reqs[1].kind = "prices" /\ reqs[2].kind = "checkout"

\* C2: cache hit.  Whenever PRICE_CACHE.data is set and its age is strictly
\* less than PRICE_TTL_MS, a getCachedPrices call returns exactly the stored
\* data and starts no load and changes nothing in the cache; and a call
\* returns from the cache, without waiting on a load, only data that is less
\* than PRICE_TTL_MS old.
C2_CacheHit ==
    /\ [][CallArrives /\ PRICE_CACHE.data # NULL /\ Age < PRICE_TTL_MS =>
            /\ promises' = promises
            /\ PRICE_CACHE' = PRICE_CACHE
            /\ GetCachedPricesResult =
                 [src |-> "cache", value |-> PRICE_CACHE.data, promise |-> 0]
            /\ RequestArrives =>
                 reqs'[Len(reqs')].handle =
                    [src |-> "cache", value |-> PRICE_CACHE.data, promise |-> 0]]_vars
    /\ [](GetCachedPricesResult.src = "cache" =>
            /\ PRICE_CACHE.data # NULL
            /\ GetCachedPricesResult.value = PRICE_CACHE.data
            /\ Age < PRICE_TTL_MS)
    /\ [][RequestArrives /\ reqs'[Len(reqs')].handle.src = "cache" =>
            /\ PRICE_CACHE.data # NULL
            /\ Age < PRICE_TTL_MS]_vars

\* A GET /prices was answered from the cache, some time after the data was
\* loaded, and no load but the warm-up's was ever started.
C2_Witness ==
    \E r \in DOMAIN reqs :
        /\ reqs[r].kind = "prices" /\ reqs[r].pc = "done"
        /\ reqs[r].handle.src = "cache"
        /\ reqs[r].response = [status |-> 200, body |-> PRICE_CACHE.data]
        /\ Age > 0
        /\ Len(promises) = 1

\* C3: TTL refresh.  A getCachedPrices call made with the cache empty or its
\* age >= PRICE_TTL_MS and no load in flight starts exactly one load; when a
\* load succeeds the cache holds the fetched map, the completion time and no
\* loading marker, so that a call within the TTL is a cache hit.
C3_TtlRefresh ==
    /\ [][CallArrives /\ (PRICE_CACHE.data = NULL \/ Age >= PRICE_TTL_MS)
               /\ InFlight = {} =>
            /\ Len(promises') = Len(promises) + 1
            /\ InFlight' = {Len(promises')}]_vars
    /\ [][\A i \in InFlight : promises'[i].state = "fulfilled" =>
            /\ PRICE_CACHE' = [data |-> promises'[i].value, ts |-> now,
                               loading |-> NoPromise]
            /\ Fresh']_vars

\* The checkout sessions the provider holds that request r created.
SessionsOf(r) == {i \in DOMAIN upSessions : upSessions[i].request = r}

\* Request r is a finished POST /create-checkout-session whose products list
\* is non-empty and has an entry in the price map it got for every id.
AllProductsPriced(r) ==
    /\ reqs[r].kind = "checkout" /\ reqs[r].pc = "done"
    /\ ~NoProductsSelected(reqs[r].body)
    /\ ~Rejected(reqs[r].handle)
    /\ \A k \in DOMAIN reqs[r].body.products :
          reqs[r].body.products[k] \in DOMAIN Awaited(reqs[r].handle)

\* Request r created exactly one session, with one quantity-1 line item per
\* entry of products, in order, at the cached price, and answered with its id.
OneSessionAsOrdered(r) ==
    /\ Cardinality(SessionsOf(r)) = 1
    /\ \A i \in SessionsOf(r) :
        LET products == reqs[r].body.products
            priceMap == Awaited(reqs[r].handle)
        IN  /\ Len(upSessions[i].line_items) = Len(products)
            /\ \A k \in 1..Len(products) :
                 upSessions[i].line_items[k] =
                    [price |-> priceMap[products[k]].price_id, quantity |-> 1]
            /\ reqs[r].response = [status |-> 200, body |-> [id |-> upSessions[i].id]]

\* C8 as stated: POST /create-checkout-session with a non-empty products list
\* whose ids all have an entry in the cached price map creates exactly one
\* session, with line items as products in length and order, each at the
\* cached price_id with quantity 1, and answers with the session's id.
C8_AsStated ==
    \A r \in DOMAIN reqs : AllProductsPriced(r) => OneSessionAsOrdered(r)

\* C8, amended: the above holds when stripe.checkout.sessions.create succeeds;
\* when that call fails no session is created and the answer is 500 with the
\* error's message.  No request ever creates more than one session.
C8_LineItems ==
    /\ \A r \in DOMAIN reqs : Cardinality(SessionsOf(r)) <= 1
    /\ \A r \in DOMAIN reqs : AllProductsPriced(r) =>
         \/ OneSessionAsOrdered(r)
         \/ /\ SessionsOf(r) = {}
            /\ reqs[r].response.status = 500
            /\ \E msg \in UpstreamMessages :
                 reqs[r].response.body = [error |-> MessageOr(msg)]

\* A repeated product id was answered with a session of two equal line items.
C8_Witness ==
    \E r \in DOMAIN reqs :
        /\ AllProductsPriced(r)
        /\ reqs[r].body.products = <<"prod_a", "prod_a">>
        /\ reqs[r].response.status = 200
        /\ \E i \in SessionsOf(r) :
             /\ Len(upSessions[i].line_items) = 2
             /\ upSessions[i].line_items[1] = upSessions[i].line_items[2]

\* The positions where a non-empty segment of text starts, and where the
\* segment starting at i ends.
SegmentStarts(text) ==
    {i \in 1..Len(text) : text[i] # "," /\ (i = 1 \/ text[i - 1] = ",")}
SegmentEnd(text, i) ==
    Min({j \in i..Len(text) : text[j] = ","} \cup {Len(text) + 1}) - 1

\* items holds one quantity-1 line item per non-empty segment of text, in order.
OnePerSegment(items, text) ==
    /\ Len(items) = Cardinality(SegmentStarts(text))
    /\ \A i \in SegmentStarts(text) :
         items[1 + Cardinality({j \in SegmentStarts(text) : j < i})] =
            [price |-> SubSeq(text, i, SegmentEnd(text, i)), quantity |-> 1]

\* Request r was answered with this error and made no upstream call.
RefusedWith(r, status, error) ==
    /\ reqs[r].response = [status |-> status, body |-> [error |-> error]]
    /\ reqs[r].calls = 0
    /\ SessionsOf(r) = {}

\* Request r created exactly one session, with one line item per non-empty
\* segment of its pid, and was redirected to the session's URL.
RedirectedToOneSession(r) ==
    /\ Cardinality(SessionsOf(r)) = 1
    /\ \A i \in SessionsOf(r) :
         /\ OnePerSegment(upSessions[i].line_items, reqs[r].query.text)
         /\ reqs[r].response = [status |-> 303, body |-> [location |-> upSessions[i].url]]

\* A finished GET /checkout, with the Stripe key configured.
CheckoutDone(r) == stripe /\ reqs[r].kind = "get-checkout" /\ reqs[r].pc = "done"
MissingPid(r) ==
    reqs[r].query.type = "absent"
        \/ (reqs[r].query.type = "string" /\ reqs[r].query.text = <<>>)
OnlyEmptySegments(r) ==
    /\ reqs[r].query.type = "string" /\ reqs[r].query.text # <<>>
    /\ \A i \in DOMAIN reqs[r].query.text : reqs[r].query.text[i] = ","
SomeSegment(r) ==
    /\ reqs[r].query.type = "string"
    /\ \E i \in DOMAIN reqs[r].query.text : reqs[r].query.text[i] # ","

\* C9 as stated: GET /checkout with a Stripe key answers 400 'Missing price ID
\* parameter' to a missing or empty pid and 400 'No valid price IDs provided'
\* to a pid of empty segments only, both without an upstream call; otherwise
\* it creates exactly one session with one quantity-1 line item per non-empty
\* segment, in order, and answers 303 to the session's URL.
C9_AsStated ==
    \A r \in DOMAIN reqs : CheckoutDone(r) =>
        /\ MissingPid(r) => RefusedWith(r, 400, <<"Missing price ID parameter">>)
        /\ OnlyEmptySegments(r) => RefusedWith(r, 400, <<"No valid price IDs provided">>)
        /\ SomeSegment(r) => RedirectedToOneSession(r)

\* C9, amended: as stated for a missing pid and a pid of empty segments; for
\* a string pid with a non-empty segment the handler makes one create call,
\* and either the provider accepts it (exactly one session, 303 to its URL)
\* or rejects it (no session; 400 'Invalid request to Stripe' for a
\* StripeInvalidRequestError, else 500 'Failed to create checkout session');
\* a pid that is not a string gets that 500 without an upstream call.
C9_Checkout ==
    \A r \in DOMAIN reqs : CheckoutDone(r) =>
        /\ MissingPid(r) => RefusedWith(r, 400, <<"Missing price ID parameter">>)
        /\ OnlyEmptySegments(r) => RefusedWith(r, 400, <<"No valid price IDs provided">>)
        /\ SomeSegment(r) =>
             /\ reqs[r].calls = 1
             /\ OnePerSegment(reqs[r].line_items, reqs[r].query.text)
             /\ \/ RedirectedToOneSession(r)
                \/ /\ SessionsOf(r) = {}
                   /\ reqs[r].response \in
                        {[status |-> 400, body |-> [error |-> <<"Invalid request to Stripe">>]],
                         [status |-> 500,
                          body |-> [error |-> <<"Failed to create checkout session">>]]}
        /\ reqs[r].query.type = "array" =>
             RefusedWith(r, 500, <<"Failed to create checkout session">>)

\* pid "b,a" was redirected to a session of two line items, b then a.
C9_Witness ==
    \E r \in DOMAIN reqs :
        /\ CheckoutDone(r)
        /\ reqs[r].query.text = <<"b", ",", "a">>
        /\ reqs[r].response.status = 303
        /\ \E i \in SessionsOf(r) :
             upSessions[i].line_items =
                <<[price |-> <<"b">>, quantity |-> 1], [price |-> <<"a">>, quantity |-> 1]>>

IsPriceRecord(v) == DOMAIN v = {"unit_amount", "currency", "price_id"}
IsErrorRecord(v) == DOMAIN v = {"error"}

\* entry is what the lookup l of product pid alone determines: the product's
\* own price record when its price list held a price, else an error record.
EntryOfLookup(entry, pid, l) ==
    IF l.listed.kind = "price"
    THEN entry = PriceRecord(pid, l.listed.version)
    ELSE /\ IsErrorRecord(entry)
         /\ (l.listed.kind = "none" /\ l.retrieved.kind = "product")
                => entry.error = <<"No active prices found for this product">>

\* C10: the uncached GET /prices.  With a Stripe key the response is a 200
\* map whose key set is exactly PRODUCT_IDS, each value a price record or an
\* {error} record that the product's own lookup determines, whatever the
\* other lookups did (an upstream failure neither fails the response nor
\* touches another entry); with no product ids it is the empty map, with no
\* upstream call; with no Stripe key it is 500, with no upstream call.
C10_UncachedPrices ==
    \A r \in DOMAIN reqs :
        (reqs[r].kind = "uncached-prices" /\ reqs[r].pc = "done") =>
            LET body == reqs[r].response.body IN
            /\ ~stripe => (reqs[r].response.status = 500 /\ reqs[r].calls = 0)
            /\ stripe =>
                /\ reqs[r].response.status = 200
                /\ DOMAIN body = Range(PRODUCT_IDS)
                /\ \A pid \in DOMAIN body :
                     /\ IsPriceRecord(body[pid]) \/ IsErrorRecord(body[pid])
                     /\ \E k \in DOMAIN PRODUCT_IDS :
                          /\ PRODUCT_IDS[k] = pid
                          /\ EntryOfLookup(body[pid], pid, reqs[r].lookups[k])
                /\ PRODUCT_IDS = <<>> => reqs[r].calls = 0

\* Two products: the first one's lookup failed upstream, the second has a
\* price, and the response is 200 with an error entry and a price entry.
C10_Witness ==
    \E r \in DOMAIN reqs :
        /\ reqs[r].kind = "uncached-prices" /\ reqs[r].pc = "done"
        /\ stripe
        /\ PRODUCT_IDS = <<"prod_a", "prod_b">>
        /\ reqs[r].lookups[1].listed.kind = "error"
        /\ reqs[r].response.status = 200
        /\ IsErrorRecord(reqs[r].response.body["prod_a"])
        /\ reqs[r].response.body["prod_b"] = PriceRecord("prod_b", 2)
\* ---------------------------------------------------------------- C4 .. C7
CreditRequests == {r \in DOMAIN reqs : reqs[r].kind = "credit"}

\* The handler of request r has left the loop over the paid sessions.
Counted(r) == reqs[r].originalCredit >= 0

\* The request was answered with a checkout URL.
AnsweredWithUrl(r) ==
    /\ reqs[r].pc = "done"
    /\ reqs[r].response.status = 200
    /\ "url" \in DOMAIN reqs[r].response.body

CouponsOf(r) == {i \in DOMAIN upCoupons : upCoupons[i].request = r}
PromotionCodesOf(r) == {i \in DOMAIN upPromotionCodes : upPromotionCodes[i].request = r}
CreditSessionsOf(r) == {i \in DOMAIN upSessions : upSessions[i].request = r}

\* The session whose URL the request was answered with.
AnsweredSessions(r) ==
    {i \in DOMAIN upSessions : upSessions[i].url = reqs[r].response.body.url}

\* What session i adds for the customer: the amount_total of its line items
\* of single upgrade products if it is the customer's and paid, else nothing.
SingleUpgradesIn(customer, i) ==
    LET creditable(item) == ProductId(item) \in Range(SINGLE_UPGRADE_PRODUCT_IDS) IN
    IF upSessions[i].customer = customer /\ upSessions[i].payment_status = "paid"
    THEN SumAmounts(SelectSeq(upSessions[i].line_items, creditable))
    ELSE 0

\* The sum over the provider's first n sessions.
RECURSIVE PaidSingleUpgradesUpTo(_, _)
PaidSingleUpgradesUpTo(customer, n) ==
    IF n = 0 THEN 0
    ELSE SingleUpgradesIn(customer, n) + PaidSingleUpgradesUpTo(customer, n - 1)

\* The sum of amount_total over all line items of single upgrade products of
\* all of the customer's paid sessions.
PaidSingleUpgrades(customer) == PaidSingleUpgradesUpTo(customer, Len(upSessions))

\* C4: the uncapped credit the handler computes is the sum of amount_total
\* over all line items of single upgrade products of all of the customer's
\* paid sessions; unpaid sessions and other products add nothing.
C4_CreditIsSumOfPaid ==
    \A r \in CreditRequests :
        Counted(r) => reqs[r].originalCredit = PaidSingleUpgrades(reqs[r].customer)

\* C5: the credit applied is min(uncapped credit, 14900); whenever a session
\* is created the applied credit c has 0 <= c < 14900, the coupon's
\* amount_off (if any) and the session's metadata credit_applied are c, and
\* the response reports credit = c and balance = 14900 - c > 0.
C5_CreditCap ==
    \A r \in CreditRequests :
        LET c == reqs[r].totalCredit IN
        /\ Counted(r) =>
              c = IF reqs[r].originalCredit < 14900 THEN reqs[r].originalCredit ELSE 14900
        /\ \A i \in CreditSessionsOf(r) :
              /\ 0 <= c /\ c < 14900
              /\ upSessions[i].metadata.credit_applied = c
              /\ \A k \in CouponsOf(r) : upCoupons[k].amount_off = c
        /\ AnsweredWithUrl(r) =>
              /\ 0 <= c /\ c < 14900
              /\ AnsweredSessions(r) # {}
              /\ \A i \in AnsweredSessions(r) : upSessions[i].metadata.credit_applied = c
              /\ \A k \in CouponsOf(r) : upCoupons[k].amount_off = c
              /\ reqs[r].response.body.credit = c
              /\ reqs[r].response.body.balance = 14900 - c
              /\ reqs[r].response.body.balance > 0

\* A history 100 short of the cap: a session with credit 14800, balance 100.
C5_Witness ==
    \E r \in CreditRequests :
        /\ AnsweredWithUrl(r)
        /\ reqs[r].originalCredit = 14800
        /\ reqs[r].response.body.balance = 100
        /\ CreditSessionsOf(r) # {} /\ CouponsOf(r) # {}

\* The handler of r is about to create, or has created, the checkout session.
AtSession(r) ==
    reqs[r].pc = "sessions.create" \/ CreditSessionsOf(r) # {} \/ AnsweredWithUrl(r)

\* C6: with 0 < credit < 14900 there is, when the session is created, exactly
\* one coupon of the request (amount_off = credit, duration 'once') and
\* exactly one promotion code, for that coupon (max_redemptions 1, restricted
\* to the customer), the coupon made before the promotion code and both
\* before the session, whose discounts are exactly that promotion code; with
\* credit = 0 there is no coupon, no promotion code and no discount.
C6_CouponMinting ==
    \A r \in CreditRequests :
        LET c == reqs[r].totalCredit IN
        /\ Cardinality(CouponsOf(r)) <= 1
        /\ Cardinality(PromotionCodesOf(r)) <= 1
        /\ Cardinality(CreditSessionsOf(r)) <= 1
        /\ PromotionCodesOf(r) # {} => CouponsOf(r) # {}
        /\ CreditSessionsOf(r) # {} /\ c > 0 => PromotionCodesOf(r) # {}
        /\ AtSession(r) /\ 0 < c /\ c < 14900 =>
              /\ Cardinality(CouponsOf(r)) = 1
              /\ Cardinality(PromotionCodesOf(r)) = 1
              /\ \A k \in CouponsOf(r) :
                    /\ upCoupons[k].amount_off = c
                    /\ upCoupons[k].duration = "once"
                    /\ \A p \in PromotionCodesOf(r) :
                          /\ upPromotionCodes[p].coupon = upCoupons[k].id
                          /\ upPromotionCodes[p].max_redemptions = 1
                          /\ upPromotionCodes[p].customer = reqs[r].customer
                          /\ \A i \in CreditSessionsOf(r) :
                                upSessions[i].discounts =
                                    <<[promotion_code |-> upPromotionCodes[p].id]>>
        /\ AtSession(r) /\ c = 0 =>
              /\ CouponsOf(r) = {}
              /\ PromotionCodesOf(r) = {}
              /\ \A i \in CreditSessionsOf(r) : upSessions[i].discounts = <<>>
        /\ ~Counted(r) => CouponsOf(r) = {} /\ PromotionCodesOf(r) = {}

\* A session was created with the promotion code minted for a credit of 4900.
C6_Witness ==
    \E r \in CreditRequests :
        /\ AnsweredWithUrl(r)
        /\ reqs[r].totalCredit = 4900
        /\ \E i \in CreditSessionsOf(r), p \in PromotionCodesOf(r) :
              upSessions[i].discounts = <<[promotion_code |-> upPromotionCodes[p].id]>>

\* C7: when the uncapped credit is 14900 or more, the handler creates no
\* coupon, no promotion code and no checkout session, and answers with
\* alreadyCovered = true and redirectUrl = SUCCESS_URL.
C7_AlreadyCovered ==
    \A r \in CreditRequests :
        Counted(r) /\ reqs[r].originalCredit >= 14900 =>
            /\ CouponsOf(r) = {}
            /\ PromotionCodesOf(r) = {}
            /\ CreditSessionsOf(r) = {}
            /\ reqs[r].pc = "done"
            /\ reqs[r].response.status = 200
            /\ DOMAIN reqs[r].response.body = {"alreadyCovered", "message", "redirectUrl"}
            /\ reqs[r].response.body.alreadyCovered = TRUE
            /\ reqs[r].response.body.redirectUrl = SUCCESS_URL

\* Paid single upgrades beyond the cap: the request is answered as covered.
C7_Witness ==
    \E r \in CreditRequests :
        /\ reqs[r].originalCredit > 14900
        /\ reqs[r].pc = "done"
        /\ reqs[r].response.body.redirectUrl = SUCCESS_URL

\* -------------------------------------------------------------- C11 .. C14
\* Some load has failed; no load has failed.
SomeLoadFailed == \E i \in DOMAIN promises : promises[i].state = "rejected"
NoLoadFailed == ~SomeLoadFailed

\* C11: recovery after a failed load.  After a load has failed, a
\* getCachedPrices call (the timer's, or a request's) made with the cache
\* empty or stale and no load in flight starts a new load.
C11_Recovery ==
    [][CallArrives /\ SomeLoadFailed /\ ~Fresh /\ InFlight = {} =>
            /\ Len(promises') = Len(promises) + 1
            /\ InFlight' = {Len(promises')}]_vars

\* C12: PRICE_CACHE.loading is non-null exactly when a load is in flight, and
\* it is then the promise of that load.
C12_LoadingMarker ==
    /\ (PRICE_CACHE.loading # NoPromise) <=> (InFlight # {})
    /\ PRICE_CACHE.loading # NoPromise => PRICE_CACHE.loading \in InFlight

\* A step in which the refresh timer fires.
TimerFiring == booted /\ nextFire' # nextFire

\* C13: every firing of the refresh timer that finds no load in flight
\* starts a load (here: even when no load has ever failed).
C13_RefreshEveryTtl ==
    [][TimerFiring /\ InFlight = {} /\ NoLoadFailed =>
            /\ Len(promises') = Len(promises) + 1
            /\ InFlight' = {Len(promises')}]_vars

\* Request r has got, from its await, the failure of a load.
GotFailure(r) ==
    /\ reqs[r].pc = "done"
    /\ reqs[r].handle.src = "load"
    /\ promises[reqs[r].handle.promise].state = "rejected"

\* C14: a failed load leaves PRICE_CACHE.data and PRICE_CACHE.ts as they
\* were when the load started (the step that starts a load, and every step
\* taken while it is in flight that does not fulfil it, leaves both
\* unchanged); every caller that waited on the load gets its failure, and
\* GET /prices answers those callers 500 'Failed to load prices'.
C14_FailedLoad ==
    /\ [][Len(promises') > Len(promises) =>
            /\ PRICE_CACHE'.data = PRICE_CACHE.data
            /\ PRICE_CACHE'.ts = PRICE_CACHE.ts]_vars
    /\ [][\A i \in InFlight : promises'[i].state # "fulfilled" =>
            /\ PRICE_CACHE'.data = PRICE_CACHE.data
            /\ PRICE_CACHE'.ts = PRICE_CACHE.ts]_vars
    /\ [](\A r \in DOMAIN reqs :
            (reqs[r].kind \in {"prices", "checkout"} /\ reqs[r].pc = "await"
                /\ Rejected(reqs[r].handle))
            => /\ Settled(reqs[r].handle)
               /\ Awaited(reqs[r].handle) = promises[reqs[r].handle.promise].value
               /\ "message" \in DOMAIN Awaited(reqs[r].handle))
    /\ [](\A r \in DOMAIN reqs :
            (reqs[r].kind = "prices" /\ GotFailure(r))
            => reqs[r].response =
                 [status |-> 500, body |-> [error |-> <<"Failed to load prices">>]])
    /\ [](\A r \in DOMAIN reqs :
            (reqs[r].kind = "checkout" /\ GotFailure(r))
            => /\ reqs[r].response.status = 500
               /\ SessionsOf(r) = {})

\* A refresh load failed after the warm-up load had succeeded: the cache
\* still holds the warm-up's data and time, and a GET /prices that waited on
\* the refresh was answered 500.
C14_Witness ==
    /\ Len(promises) = 2
    /\ promises[1].state = "fulfilled" /\ promises[2].state = "rejected"
    /\ PRICE_CACHE.data = promises[1].value
    /\ PRICE_CACHE.ts < now
    /\ \E r \in DOMAIN reqs :
        /\ reqs[r].kind = "prices" /\ GotFailure(r)
        /\ reqs[r].handle.promise = 2
        /\ reqs[r].response.status = 500

\* -------------------------------------------------------------- C15 .. C16
\* The positions of the ids of products that the price map request r got has
\* no entry for.
NoEntryAt(r) ==
    {k \in DOMAIN reqs[r].body.products :
        reqs[r].body.products[k] \notin DOMAIN Awaited(reqs[r].handle)}

\* C15: when some id of products has no entry in the price map the handler
\* got, no session is created and the answer is an error with the message
\* 'Unknown product: <id>' for the first such id.
C15_UnknownProduct ==
    \A r \in DOMAIN reqs :
        (/\ reqs[r].kind = "checkout" /\ reqs[r].pc = "done"
         /\ ~NoProductsSelected(reqs[r].body)
         /\ ~Rejected(reqs[r].handle)
         /\ NoEntryAt(r) # {})
        => /\ SessionsOf(r) = {}
           /\ reqs[r].response.status = 500
           /\ reqs[r].response.body =
                [error |-> <<"Unknown product: ",
                             reqs[r].body.products[Min(NoEntryAt(r))]>>]

\* The body's products is absent, empty or not an array.
EmptySelection(body) == ~body.isArray \/ Len(body.products) = 0

CustomersOf(r) == {i \in DOMAIN upCustomers : upCustomers[i].request = r}

\* Request r is answered and its handler has made no upstream call: it has
\* looked up no customer, and the provider holds no customer, coupon,
\* promotion code or session made for it.
NoUpstreamCall(r) ==
    /\ reqs[r].pc = "done"
    /\ reqs[r].calls = 0
    /\ reqs[r].customer = 0
    /\ CustomersOf(r) = {}
    /\ CouponsOf(r) = {}
    /\ PromotionCodesOf(r) = {}
    /\ CreditSessionsOf(r) = {}

Unconfigured ==
    ~stripe \/ BUNDLE_PRICE_ID = "" \/ Len(SINGLE_UPGRADE_PRODUCT_IDS) = 0

\* C17: a POST /checkout/credit without email is answered 400 'Email is
\* required'; one made while the Stripe key, BUNDLE_PRICE_ID or
\* SINGLE_UPGRADE_PRODUCT_IDS is not configured is answered 500; in both
\* cases the handler makes no upstream call, and the step in which the
\* request arrives leaves the provider as it was.
C17_ValidationFirst ==
    /\ [](\A r \in CreditRequests :
            /\ reqs[r].email = "" =>
                 /\ reqs[r].response =
                      [status |-> 400, body |-> [error |-> <<"Email is required">>]]
                 /\ NoUpstreamCall(r)
            /\ reqs[r].email # "" /\ Unconfigured =>
                 /\ reqs[r].response.status = 500
                 /\ NoUpstreamCall(r))
    /\ [][(/\ RequestArrives
           /\ reqs'[Len(reqs')].kind = "credit"
           /\ (reqs'[Len(reqs')].email = "" \/ Unconfigured))
          => /\ reqs'[Len(reqs')].pc = "done"
             /\ upCustomers' = upCustomers
             /\ upCoupons' = upCoupons
             /\ upPromotionCodes' = upPromotionCodes
             /\ upSessions' = upSessions]_vars

\* A request with an email, for a customer the provider knows, was refused
\* because the bundle price is not configured.
C17_Witness ==
    \E r \in CreditRequests :
        /\ reqs[r].email = "pro@golf.club"
        /\ BUNDLE_PRICE_ID = ""
        /\ reqs[r].response =
              [status |-> 500, body |-> [error |-> <<"Bundle product not configured">>]]
        /\ Len(upCustomers) = 1
        /\ reqs[r].calls = 0

\* -------------------------------------------------------------- C18 .. C20
\* C18: two POST /checkout/credit requests for the same customer, the same
\* credit and the same jobId that were answered with a checkout URL used the
\* same idempotency key and were answered with the same, single session.
C18_Idempotent ==
    \A r1 \in CreditRequests, r2 \in CreditRequests :
        (/\ r1 # r2
         /\ AnsweredWithUrl(r1) /\ AnsweredWithUrl(r2)
         /\ reqs[r1].customer = reqs[r2].customer
         /\ reqs[r1].totalCredit = reqs[r2].totalCredit
         /\ reqs[r1].jobId = reqs[r2].jobId)
        => /\ AnsweredSessions(r1) = AnsweredSessions(r2)
           /\ Cardinality(CreditSessionsOf(r1) \cup CreditSessionsOf(r2)) <= 1
           /\ \A i \in AnsweredSessions(r1), j \in AnsweredSessions(r2) :
                 upSessions[i].idempotencyKey = upSessions[j].idempotencyKey

\* The customers with the email that this server created.
CreatedWith(email) ==
    {i \in DOMAIN upCustomers :
        upCustomers[i].email = email /\ upCustomers[i].request # 0}

\* C19: whatever the interleaving of the requests, the server has created at
\* most one customer with a given email.
C19_OneCustomer ==
    \A email \in Emails : Cardinality(CreatedWith(email)) <= 1

\* What promotion code p grants the customer: the amount_off of its coupon,
\* if the code is the customer's and was redeemed or can still be redeemed.
Granted(customer, p) ==
    IF /\ upPromotionCodes[p].customer = customer
       /\ (upPromotionCodes[p].times_redeemed > 0 \/ Redeemable(p))
    THEN upCoupons[upPromotionCodes[p].coupon].amount_off
    ELSE 0

\* The sum over the provider's first n promotion codes.
RECURSIVE GrantedUpTo(_, _)
GrantedUpTo(customer, n) ==
    IF n = 0 THEN 0
    ELSE Granted(customer, n) + GrantedUpTo(customer, n - 1)

\* C20: for every customer, the amount_off of the coupons minted for the
\* customer that were redeemed or can still be redeemed is in total at most
\* the customer's credit: the sum of their paid single-upgrade line items,
\* capped at 14900.
C20_CreditOnce ==
    \A customer \in DOMAIN upCustomers :
        GrantedUpTo(customer, Len(upPromotionCodes)) <=
            IF PaidSingleUpgrades(customer) < 14900
            THEN PaidSingleUpgrades(customer) ELSE 14900

\* --------------------------------------------------------------------- C21
\* Request r was answered with an error status.
AnsweredWithError(r) ==
    reqs[r].pc = "done" /\ reqs[r].response.status \in {400, 500}

\* C21: when POST /checkout/credit answers with an error status, the
\* provider holds no coupon and no promotion code created by that request.
C21_NoPartialEffects ==
    \A r \in CreditRequests :
        AnsweredWithError(r) => CouponsOf(r) = {} /\ PromotionCodesOf(r) = {}

\* --------------------------------------------------------------------- C22
\* data is a map from exactly the configured product ids to price records.
CompleteMap(data) ==
    /\ DOMAIN data = Range(PRODUCT_IDS)
    /\ \A pid \in DOMAIN data :
          DOMAIN data[pid] = {"unit_amount", "currency", "price_id"}

\* C22: PRICE_CACHE.data is null or a map from exactly the configured
\* product ids to price records (unit_amount, currency, price_id); once it
\* is non-null it never becomes null again; and PRICE_CACHE.ts never
\* decreases.
C22_CompleteMonotonic ==
    /\ [](PRICE_CACHE.data = NULL \/ CompleteMap(PRICE_CACHE.data))
    /\ [][PRICE_CACHE.data # NULL => PRICE_CACHE'.data # NULL]_vars
    /\ [][PRICE_CACHE'.ts >= PRICE_CACHE.ts]_vars

\* With a product id configured twice, a refresh has replaced the data of
\* the warm-up load by newer prices, at a later time.
C22_Witness ==
    /\ PRODUCT_IDS = <<"prod_a", "prod_a">>
    /\ Len(promises) = 2
    /\ promises[1].state = "fulfilled" /\ promises[2].state = "fulfilled"
    /\ PRICE_CACHE.data = promises[2].value
    /\ PRICE_CACHE.data # promises[1].value
    /\ DOMAIN PRICE_CACHE.data = {"prod_a"}
    /\ PRICE_CACHE.ts > BootMs


\* The finished lookups all of whose upstream calls answered.
Lookups ==
    {r \in DOMAIN reqs :
        /\ reqs[r].kind = "lookup" /\ reqs[r].pc = "done"
        /\ reqs[r].outcome # Thrown(<<"upstream error">>)}

\* The positions of the product's active one-time prices.
ActiveOneTime(kinds) ==
    {i \in DOMAIN kinds : kinds[i].active /\ kinds[i].type = "one_time"}

\* The positions of the prices on the one page that the list call returns.
ListedAt(kinds) ==
    {i \in ActiveOneTime(kinds) :
        Cardinality({j \in ActiveOneTime(kinds) : j < i}) < PriceListLimit}

\* The product's default price is active and of type one_time.
DefaultUsable(q) ==
    /\ q.default_price.form # "none"
    /\ q.default_price.index \in ActiveOneTime(q.kinds)

\* The lookup returned the price at position i.
ReturnedAt(q, i) ==
    /\ q.outcome.status = "returned"
    /\ q.outcome.value = PriceInfo(PriceAt(q.productId, q.kinds, i))

\* C23: a finished lookup returned the default price without querying the
\* price list when that price is active and one_time; otherwise it returned
\* a listed active one-time price whose created is the greatest of those
\* listed; when the product has no active one-time price it threw
\* 'No active one-time price for product <id>'; and what it returned is
\* never an inactive or recurring price.
C23_PriceSelection ==
    \A r \in Lookups :
        LET q == reqs[r] IN
        /\ DefaultUsable(q) =>
              ReturnedAt(q, q.default_price.index) /\ ~q.listed
        /\ (~DefaultUsable(q) /\ ActiveOneTime(q.kinds) # {}) =>
              \E i \in ListedAt(q.kinds) :
                 /\ ReturnedAt(q, i)
                 /\ \A j \in ListedAt(q.kinds) :
                       q.kinds[i].created >= q.kinds[j].created
        /\ ActiveOneTime(q.kinds) = {} =>
              q.outcome = Thrown(<<"No active one-time price for product ",
                                   q.productId>>)
        /\ q.outcome.status = "returned" =>
              \E i \in ActiveOneTime(q.kinds) : ReturnedAt(q, i)

\* A lookup whose default price is not usable and that returned the newer
\* of two listed prices, the one the provider listed second.
C23_Witness ==
    \E r \in Lookups :
        LET q == reqs[r] IN
        /\ q.default_price.form # "none" /\ ~DefaultUsable(q)
        /\ q.listed
        /\ ActiveOneTime(q.kinds) = {2, 3}
        /\ q.kinds[3].created > q.kinds[2].created
        /\ ReturnedAt(q, 3)

=============================================================================
